---- MODULE Spec2Model ----
(***************************************************************************)
(* Model of lib/Sema/TypeCheckInvertible.cpp: derivation of the implicit   *)
(* Copyable conformance of a nominal type (deriveConformanceForInvertible),*)
(* the structural check of such a conformance (checkCopyableConformance),  *)
(* the storage walk it drives (StorageVisitor::visit) and the notes and    *)
(* fix-its emitted for a noncopyable member (tryEmitContainmentFixits).    *)
(*                                                                         *)
(* One nominal type declaration is analysed.  Its attributes are fixed by  *)
(* Init; the conformance table, the extensions bound to it and the         *)
(* synthesized file's top-level declarations change as the operations run. *)
(* A member's type is the type the walk hands to the callback, i.e. after  *)
(* mapTypeIntoContext.                                                     *)
(***************************************************************************)
EXTENDS Integers, Sequences, FiniteSets, TLC

VARIABLES nominal, conformances, extensions, topLevel, derived, lastCall, aborted

vars == <<nominal, conformances, extensions, topLevel, derived, lastCall, aborted>>

(* ------------------------------ bounds --------------------------------- *)

MaxMembers == 2

MaxParams == 2

MaxDerive == 2

(* --------------------------- declarations ------------------------------ *)

DeclKinds == {"Struct", "Class", "Enum", "Protocol", "BuiltinTuple"}

MarkingKinds == {"None", "Inferred", "Explicit"}

Requirement(param, proto) == [kind |-> "Conformance", param |-> param, proto |-> proto]

\* A type as the storage walk sees it.  conforms: the result of
\* TypeChecker::conformsToProtocol(type, Copyable).  kind "Archetype" carries
\* gp (what getInterfaceType()/getDecl() give); kind "Nominal" carries the
\* location and inverse marking of getAnyNominal(), and argInverse, the inverse
\* marking of the nominal of its generic argument (one level further down).
Ty(kind, hasError, conforms, gp, hasLoc, inverse, argInverse) ==
    [kind |-> kind, hasError |-> hasError, conforms |-> conforms, gp |-> gp,
     hasLoc |-> hasLoc, inverse |-> inverse, argInverse |-> argInverse]

CopyableTy == Ty("Other", FALSE, TRUE, "na", FALSE, "None", "na")

ArchetypeTys ==
    {Ty("Archetype", FALSE, FALSE, gp, FALSE, "None", "na") :
        gp \in {"NotGenericParam", "NoDecl", "SameModule", "OtherModule"}}

NominalTys ==
    {Ty("Nominal", FALSE, FALSE, "na", hasLoc, inv, "na") :
        hasLoc \in BOOLEAN, inv \in {"Inferred", "Explicit"}}
    \cup {Ty("Nominal", FALSE, FALSE, "na", TRUE, "Inferred", "Explicit")}

ErrorTys == {Ty("Other", TRUE, c, "na", FALSE, "None", "na") : c \in BOOLEAN}

OtherTys == {CopyableTy, Ty("Other", FALSE, FALSE, "na", FALSE, "None", "na"),
             Ty("Nominal", FALSE, TRUE, "na", TRUE, "None", "na")}

StorageTys == ArchetypeTys \cup NominalTys \cup ErrorTys \cup OtherTys

Member(hasAssoc, ty) == [hasAssoc |-> hasAssoc, ty |-> ty]

NoPayload == Member(FALSE, CopyableTy)

RECURSIVE SeqsUpTo(_, _)
SeqsUpTo(S, n) ==
    IF n = 0 THEN {<<>>}
    ELSE LET shorter == SeqsUpTo(S, n - 1)
         IN  shorter \cup {Append(s, x) : s \in {t \in shorter : Len(t) = n - 1}, x \in S}

\* The member declarations of a nominal: getStoredProperties() of a struct or
\* class; the elements of getAllCases() of an enum, with or without associated
\* values; the property requirements of a protocol, which are not storage.
MembersOf(kind, tys) ==
    CASE kind \in {"Struct", "Class", "Protocol"} ->
            SeqsUpTo({Member(TRUE, t) : t \in tys}, MaxMembers)
      [] kind = "Enum" ->
            SeqsUpTo({Member(TRUE, t) : t \in tys} \cup {NoPayload}, MaxMembers)
      [] OTHER -> {<<>>}

\* getGenericSignature(): the parameters 1..n and the requirements written on
\* the declaration.
SignaturesOf(n) ==
    {[params |-> n, reqs |-> <<>>]} \cup
    (IF n > 0 THEN {[params |-> n, reqs |-> <<Requirement(1, "Equatable")>>]} ELSE {})

Nominal(kind, positive, inverse, sig, inFileUnit, inheritedEmpty, members) ==
    [kind |-> kind, positive |-> positive, inverse |-> inverse, sig |-> sig,
     inFileUnit |-> inFileUnit, inheritedEmpty |-> inheritedEmpty, members |-> members]

(* ------------------------------ diagnostics ---------------------------- *)

NoFixIt == [at |-> "none", text |-> ""]

\* A diagnostic: its id, where it points (member: the index of the member
\* declaration for loc "Storage", else 0; depth: how many levels below the
\* member's type the declaration it points at lies) and its fix-it.
Diag(id, loc, member, depth, fixit) ==
    [id |-> id, loc |-> loc, member |-> member, depth |-> depth, fixit |-> fixit]

\* addConformanceFixIt
addConformanceFixIt(nom, inverse) ==
    IF nom.inheritedEmpty
    THEN [at |-> "BracesStart", text |-> IF inverse THEN ": ~Copyable" ELSE ": Copyable"]
    ELSE [at |-> "InheritedEnd", text |-> IF inverse THEN ", ~Copyable" ELSE ", Copyable"]

NoteIds == {"note_inverse_preventing_conformance",
            "note_inverse_preventing_conformance_implicit",
            "note_inverse_preventing_conformance_explicit"}

\* The cause note for a nominal member type, lines 86-113.  assertsOn: the
\* build keeps assert(); then the None case aborts.
nominalCauseNote(ty, assertsOn) ==
    IF ~ty.hasLoc THEN [diags |-> <<>>, aborted |-> FALSE]
    ELSE CASE ty.inverse = "None" ->
                [diags |-> <<>>, aborted |-> assertsOn]
           [] ty.inverse = "Inferred" ->
                [diags |-> <<Diag("note_inverse_preventing_conformance_implicit",
                                  "InverseLoc", 0, 0, NoFixIt)>>,
                 aborted |-> FALSE]
           [] ty.inverse = "Explicit" ->
                [diags |-> <<Diag("note_inverse_preventing_conformance_explicit",
                                  "InverseLoc", 0, 0, NoFixIt)>>,
                 aborted |-> FALSE]

\* archetypeCauseNote without the comparison of the parameter's module.
archetypeCauseNote_AnyModule(ty) ==
    IF ty.gp \in {"SameModule", "OtherModule"}
    THEN <<Diag("note_inverse_preventing_conformance", "GenericParamDecl", 0, 0, NoFixIt)>>
    ELSE <<>>

\* The generic-parameter note, lines 71-84.
archetypeCauseNote(ty) ==
    IF ty.gp = "SameModule"
    THEN <<Diag("note_inverse_preventing_conformance", "GenericParamDecl", 0, 0, NoFixIt)>>
    ELSE <<>>

\* tryEmitContainmentFixits(enclosingNom, nonConformingTy, Copyable)
tryEmitContainmentFixits(enclosingNom, ty, assertsOn) ==
    LET first == <<Diag("add_inverse", "EnclosingNominal", 0, 0,
                        addConformanceFixIt(enclosingNom, TRUE))>>
    IN  IF ty.kind = "Archetype"
        THEN [diags |-> first \o archetypeCauseNote(ty), aborted |-> FALSE]
        ELSE IF ty.kind = "Nominal"
        THEN LET n == nominalCauseNote(ty, assertsOn)
             IN  [diags |-> first \o n.diags, aborted |-> n.aborted]
        ELSE [diags |-> first, aborted |-> FALSE]

(* --------------------------- conformance query ------------------------- *)

\* IsNoncopyableRequest::evaluate
isNoncopyable(ty) == ~ty.conforms

(* ----------------------------- storage walk ---------------------------- *)

\* storageCandidates without the hasAssociatedValues() test.
storageCandidates_AllElements(nom) ==
    IF nom.kind \in {"Struct", "Class", "Enum"}
    THEN [i \in 1..Len(nom.members) |-> i]
    ELSE <<>>

\* The members StorageVisitor::visit hands to the callback, in order, were the
\* callback never to stop the walk.
storageCandidates(nom) ==
    LET idx == [i \in 1..Len(nom.members) |-> i]
    IN  IF nom.kind \in {"Struct", "Class"} THEN idx
        ELSE IF nom.kind = "Enum"
        THEN SelectSeq(idx, LAMBDA i : nom.members[i].hasAssoc)
        ELSE <<>>

RECURSIVE walk(_, _)
walk(cands, stops) ==
    IF cands = <<>> THEN <<>>
    ELSE IF Head(cands) \in stops THEN <<Head(cands)>>
    ELSE <<Head(cands)>> \o walk(Tail(cands), stops)

\* StorageVisitor::visit(nominal, dc) with a callback that returns true on
\* exactly the members in stops: the members it was invoked on, and its result.
visit(nom, stops) ==
    LET visited == walk(storageCandidates(nom), stops)
    IN  [visited |-> visited,
         result |-> visited # <<>> /\ visited[Len(visited)] \in stops]

(* -------------------------- structural check --------------------------- *)

\* check without the hasError() early return.
check_NoErrorSkip(member) == isNoncopyable(member.ty)

\* HasNoncopyable::check, its result.
check(member) ==
    IF member.ty.hasError THEN FALSE
    ELSE IF ~isNoncopyable(member.ty) THEN FALSE
    ELSE TRUE

\* HasNoncopyable::check with Diagnosing set, what it emits when it returns true.
checkDiagnostics(nom, i, assertsOn) ==
    LET t == tryEmitContainmentFixits(nom, nom.members[i].ty, assertsOn)
    IN  [diags |-> <<Diag("noncopyable_type_member_in_copyable", "Storage", i, 0,
                          NoFixIt)>> \o t.diags,
         aborted |-> t.aborted]

\* What llvm_unreachable does at line 162: it aborts where the build keeps it,
\* and is undefined where the build drops it, the branch then falling through.
unreachableAborts(assertsOn) == assertsOn

\* storesNothingChecked without the early return for classes.
storesNothingChecked_ProtocolOnly(nom) == nom.kind = "Protocol"

\* The early returns of lines 153-159: classes can store noncopyable values,
\* protocols define no storage.
storesNothingChecked(nom) == nom.kind = "Class" \/ nom.kind = "Protocol"

\* checkCopyableConformance(conformance)
checkCopyableConformance(nom, assertsOn) ==
    IF storesNothingChecked(nom)
    THEN [result |-> "true", diags |-> <<>>, visited |-> <<>>, aborted |-> FALSE]
    ELSE IF nom.kind = "BuiltinTuple" /\ unreachableAborts(assertsOn)
    THEN [result |-> "none", diags |-> <<>>, visited |-> <<>>, aborted |-> TRUE]
    ELSE LET stops == {i \in 1..Len(nom.members) : check(nom.members[i])}
             v     == visit(nom, stops)
             d     == IF v.result
                      THEN checkDiagnostics(nom, v.visited[Len(v.visited)], assertsOn)
                      ELSE [diags |-> <<>>, aborted |-> FALSE]
         IN  [result  |-> IF d.aborted THEN "none" ELSE IF v.result THEN "false" ELSE "true",
              diags   |-> d.diags,
              visited |-> v.visited,
              aborted |-> d.aborted]

(* ------------------------------ derivation ----------------------------- *)

\* ctx.getNormalConformance(type, proto, loc, conformanceDC, Complete, false)
\* then setSourceKindAndImplyingConformance(Synthesized): the conformance of
\* the nominal to Copyable declared in context dc (0: the nominal itself,
\* k > 0: the k-th extension created).
getNormalConformance(dc) ==
    [dc |-> dc, state |-> "Complete", sourceKind |-> "Synthesized"]

\* The generateConformance lambda.
generateConformance(st, dc) ==
    [st  |-> [st EXCEPT !.conformances = @ \cup {getNormalConformance(dc)}],
     ret |-> {getNormalConformance(dc)}]

\* conditionalRequirements with the loop stopping after the first parameter.
conditionalRequirements_FirstOnly(nom) ==
    [p \in 1..(IF nom.sig.params > 0 THEN 1 ELSE 0) |-> Requirement(p, "Copyable")]

\* reqs of the generateConditionalConformance lambda, lines 299-304.
conditionalRequirements(nom) ==
    [p \in 1..nom.sig.params |-> Requirement(p, "Copyable")]

\* buildGenericSignature(ctx, genericSig, {}, reqs)
buildGenericSignature(sig, reqs) == [params |-> sig.params, reqs |-> sig.reqs \o reqs]

\* addTopLevelDecl left out.
addTopLevelDecl_Never(nom, top, ext) == top

\* addTopLevelDecl, under the dyn_cast<FileUnit> of line 316.
addTopLevelDecl(nom, top, ext) == IF nom.inFileUnit THEN Append(top, ext) ELSE top

\* The generateConditionalConformance lambda.
generateConditionalConformance(nom, st) ==
    LET id  == Len(st.extensions) + 1
        ext == [id |-> id, implicit |-> TRUE, inherited |-> <<"Copyable">>,
                sig |-> buildGenericSignature(nom.sig, conditionalRequirements(nom)),
                extendedNominal |-> "nominal"]
        bound == [st EXCEPT !.extensions = Append(@, ext),
                            !.topLevel = addTopLevelDecl(nom, @, id)]
    IN  generateConformance(bound, id)

\* deriveFromInverse with the explicit inverse treated like no inverse.
deriveFromInverse_ExplicitDerives(nom, st) ==
    CASE nom.inverse = "Inferred" -> generateConditionalConformance(nom, st)
      [] OTHER                    -> generateConformance(st, 0)

\* The switch on the inverse marking, lines 349-359.
deriveFromInverse(nom, st) ==
    CASE nom.inverse = "Explicit" -> [st |-> st, ret |-> {}]
      [] nom.inverse = "Inferred" -> generateConditionalConformance(nom, st)
      [] nom.inverse = "None"     -> generateConformance(st, 0)

\* contradictionDiagnostics with the diagnosis left out.
contradictionDiagnostics_Silent(nom) == <<>>

\* The diagnostics of the explicit-Copyable branch, lines 332-339.
contradictionDiagnostics(nom) ==
    IF nom.inverse = "Explicit"
    THEN <<Diag("noncopyable_but_copyable", "InverseLoc", 0, 0, NoFixIt)>>
    ELSE <<>>

\* deriveConformanceForInvertible(evaluator, nominal, Copyable)
deriveConformanceForInvertible(nom, st, assertsOn) ==
    IF nom.positive = "Explicit"
    THEN LET g == generateConformance(st, 0)
         IN  [st |-> g.st, ret |-> g.ret, diags |-> contradictionDiagnostics(nom),
              aborted |-> FALSE]
    ELSE IF nom.positive # "None" /\ assertsOn
    THEN [st |-> st, ret |-> {}, diags |-> <<>>, aborted |-> TRUE]
    ELSE LET g == deriveFromInverse(nom, st)
         IN  [st |-> g.st, ret |-> g.ret, diags |-> <<>>, aborted |-> FALSE]

(* ------------------------------- the machine --------------------------- *)

Call(op, result, ret, diags, visited) ==
    [op |-> op, result |-> result, ret |-> ret, diags |-> diags, visited |-> visited]

NoCall == Call("none", "none", {}, <<>>, <<>>)

InitState ==
    /\ conformances = {}
    /\ extensions = <<>>
    /\ topLevel = <<>>
    /\ derived = 0
    /\ lastCall = NoCall
    /\ aborted = FALSE

\* A declaration with any marking and signature; its members are copyable,
\* noncopyable or of its own (noncopyable, explicitly marked) type.
DeriveTys == {CopyableTy, Ty("Nominal", FALSE, FALSE, "na", TRUE, "Explicit", "na")}

Init ==
    /\ InitState
    /\ \E kind \in DeclKinds, positive \in MarkingKinds, inverse \in MarkingKinds,
          n \in 0..MaxParams, inFileUnit \in BOOLEAN, inheritedEmpty \in BOOLEAN :
         \E sig \in SignaturesOf(n), members \in MembersOf(kind, DeriveTys) :
            nominal = Nominal(kind, positive, inverse, sig, inFileUnit,
                              inheritedEmpty, members)

Derive ==
    /\ ~aborted
    /\ derived < MaxDerive
    /\ \E assertsOn \in BOOLEAN :
         LET r == deriveConformanceForInvertible(
                      nominal,
                      [conformances |-> conformances, extensions |-> extensions,
                       topLevel |-> topLevel],
                      assertsOn)
         IN  /\ conformances' = r.st.conformances
             /\ extensions' = r.st.extensions
             /\ topLevel' = r.st.topLevel
             /\ aborted' = r.aborted
             /\ lastCall' = Call("derive", IF r.aborted THEN "none"
                                           ELSE IF r.ret = {} THEN "absent" ELSE "grant",
                                 r.ret, r.diags, <<>>)
    /\ derived' = derived + 1
    /\ UNCHANGED nominal

\* checkConformancesInContext hands a registered conformance to the check.
Check ==
    /\ ~aborted
    /\ \E c \in conformances, assertsOn \in BOOLEAN :
         LET r == checkCopyableConformance(nominal, assertsOn)
         IN  /\ aborted' = r.aborted
             /\ lastCall' = Call("check", r.result, {c}, r.diags, r.visited)
    /\ UNCHANGED <<nominal, conformances, extensions, topLevel, derived>>

\* StorageVisitor::visit called with any callback.
Visit ==
    /\ ~aborted
    /\ \E stops \in SUBSET (1..Len(nominal.members)) :
         LET v == visit(nominal, stops)
         IN  lastCall' = Call("visit", IF v.result THEN "true" ELSE "false", {},
                              <<>>, v.visited)
    /\ UNCHANGED <<nominal, conformances, extensions, topLevel, derived, aborted>>

Next == Derive \/ Check \/ Visit

Spec == Init /\ [][Next]_vars

\* The later pass alone: an unmarked, non-generic declaration whose Copyable
\* conformance has been derived, with members of every type the walk can meet.
InitStorage ==
    \E kind \in DeclKinds, inheritedEmpty \in BOOLEAN :
      \E members \in MembersOf(kind, StorageTys) :
        LET nom == Nominal(kind, "None", "None", [params |-> 0, reqs |-> <<>>], TRUE,
                           inheritedEmpty, members)
            r   == deriveConformanceForInvertible(
                       nom, [conformances |-> {}, extensions |-> <<>>,
                             topLevel |-> <<>>], TRUE)
        IN  /\ nominal = nom
            /\ conformances = r.st.conformances
            /\ extensions = r.st.extensions
            /\ topLevel = r.st.topLevel
            /\ derived = 1
            /\ lastCall = Call("derive", "grant", r.ret, r.diags, <<>>)
            /\ aborted = FALSE

NextStorage == Check \/ Visit

SpecStorage == InitStorage /\ [][NextStorage]_vars

\* The noncopyable nominal types whose declaration carries no inverse marking:
\* the input the assertion of line 96 is written for.
UnmarkedNoncopyableTys ==
    {Ty("Nominal", FALSE, FALSE, "na", hasLoc, "None", "na") : hasLoc \in BOOLEAN}

\* tryEmitContainmentFixits over every input its switch distinguishes: a
\* derived struct or enum whose members may also be of an unmarked
\* noncopyable nominal type.
InitTracer ==
    \E kind \in {"Struct", "Enum"}, inheritedEmpty \in BOOLEAN :
      \E members \in MembersOf(kind, StorageTys \cup UnmarkedNoncopyableTys) :
        LET nom == Nominal(kind, "None", "None", [params |-> 0, reqs |-> <<>>], TRUE,
                           inheritedEmpty, members)
            r   == deriveConformanceForInvertible(
                       nom, [conformances |-> {}, extensions |-> <<>>,
                             topLevel |-> <<>>], TRUE)
        IN  /\ nominal = nom
            /\ conformances = r.st.conformances
            /\ extensions = r.st.extensions
            /\ topLevel = r.st.topLevel
            /\ derived = 1
            /\ lastCall = Call("derive", "grant", r.ret, r.diags, <<>>)
            /\ aborted = FALSE

NextTracer == Check

SpecTracer == InitTracer /\ [][NextTracer]_vars

(* ------------------------------- properties ---------------------------- *)

IsConditional(c) == c.dc # 0

DiagsWith(ds, id) == {j \in 1..Len(ds) : ds[j].id = id}

\* C1: deriving twice for the same declaration yields the same conformance, and
\* whatever the number of derivations the declaration has at most one
\* registered conformance, at most one implicit extension and at most one
\* top-level synthesized declaration.
C1_DeriveIdempotent ==
    /\ Cardinality(conformances) <= 1
    /\ Len(extensions) <= 1
    /\ Len(topLevel) <= 1
    /\ (lastCall.op = "derive" /\ lastCall.result = "grant") => conformances = lastCall.ret

\* C2: with no positive marking and an explicit inverse marking the derivation
\* returns no conformance, registers none, creates no extension, emits no
\* diagnostic and walks no storage, whatever the members are.
C2_ExplicitInverseAbsent ==
    (lastCall.op = "derive" /\ nominal.positive = "None" /\ nominal.inverse = "Explicit")
        => /\ lastCall.result = "absent"
           /\ lastCall.ret = {}
           /\ lastCall.diags = <<>>
           /\ lastCall.visited = <<>>
           /\ conformances = {}
           /\ extensions = <<>>
           /\ topLevel = <<>>

C2_Witness ==
    /\ lastCall.op = "derive"
    /\ nominal.positive = "None"
    /\ nominal.inverse = "Explicit"
    /\ nominal.kind = "Struct"
    /\ \E i \in 1..Len(nominal.members) :
          nominal.members[i].ty.kind = "Nominal" /\ ~nominal.members[i].ty.conforms

\* C3: with an explicit positive marking the derivation returns the
\* conformance declared in the nominal itself and creates no extension; it
\* emits exactly one contradiction diagnostic, at the inverse marking, when the
\* inverse marking is explicit too, and no diagnostic otherwise.
C3_ExplicitPositiveUnconditional ==
    (lastCall.op = "derive" /\ nominal.positive = "Explicit")
        => /\ lastCall.result = "grant"
           /\ \A c \in lastCall.ret : ~IsConditional(c)
           /\ Cardinality(lastCall.ret) = 1
           /\ lastCall.ret \subseteq conformances
           /\ extensions = <<>>
           /\ IF nominal.inverse = "Explicit"
              THEN /\ Len(lastCall.diags) = 1
                   /\ lastCall.diags[1].id = "noncopyable_but_copyable"
                   /\ lastCall.diags[1].loc = "InverseLoc"
              ELSE lastCall.diags = <<>>

C3_Witness ==
    /\ lastCall.op = "derive"
    /\ nominal.positive = "Explicit"
    /\ nominal.inverse = "Explicit"
    /\ Len(lastCall.diags) = 1

\* C4: with no positive marking and an inferred inverse marking the derivation
\* returns a conformance declared in the extension it has just created, whose
\* generic signature is the nominal's followed by one Copyable conformance
\* requirement for each generic parameter and nothing else.
C4_ConditionalRequirements ==
    (lastCall.op = "derive" /\ nominal.positive = "None" /\ nominal.inverse = "Inferred")
        => /\ lastCall.result = "grant"
           /\ Len(extensions) = derived
           /\ lastCall.ret = {getNormalConformance(Len(extensions))}
           /\ lastCall.ret \subseteq conformances
           /\ LET ext  == extensions[Len(extensions)]
                  base == nominal.sig.reqs
                  n    == nominal.sig.params
              IN  /\ ext.id = Len(extensions)
                  /\ ext.sig.params = n
                  /\ Len(ext.sig.reqs) = Len(base) + n
                  /\ SubSeq(ext.sig.reqs, 1, Len(base)) = base
                  /\ \A p \in 1..n :
                        Cardinality({j \in Len(base) + 1 .. Len(ext.sig.reqs) :
                                        ext.sig.reqs[j] = Requirement(p, "Copyable")}) = 1

C4_Witness ==
    /\ lastCall.op = "derive"
    /\ nominal.positive = "None"
    /\ nominal.inverse = "Inferred"
    /\ nominal.sig.params = 2
    /\ nominal.sig.reqs # <<>>
    /\ Len(extensions) = 1

ExtensionBound(id) ==
    \E i \in 1..Len(extensions) :
        extensions[i].id = id /\ extensions[i].extendedNominal = "nominal"

TopLevelListed(id) == \E j \in 1..Len(topLevel) : topLevel[j] = id

\* C5 as stated: the extension of every conditional conformance is bound to
\* the nominal and is among the top-level synthesized declarations.
C5_ScopeAlwaysListed ==
    \A c \in conformances :
        IsConditional(c) => ExtensionBound(c.dc) /\ TopLevelListed(c.dc)

\* C5, amended: the extension of every conditional conformance is bound to the
\* nominal; it is among the top-level synthesized declarations when the
\* nominal's module-scope context is a file unit, and not otherwise.
C5_ScopeListedInFileUnit ==
    \A c \in conformances :
        IsConditional(c) => /\ ExtensionBound(c.dc)
                            /\ TopLevelListed(c.dc) <=> nominal.inFileUnit

C5_Witness ==
    /\ \E c \in conformances : IsConditional(c) /\ TopLevelListed(c.dc)
    /\ nominal.inFileUnit

(* ----------------------- properties of the check ----------------------- *)

\* The members of a struct or enum that carry storage.
StorageIdx ==
    {i \in 1..Len(nominal.members) : nominal.kind = "Enum" => nominal.members[i].hasAssoc}

Min(S) == CHOOSE x \in S : \A y \in S : x <= y

\* The check of a struct or enum fails exactly when viol is not empty, and it
\* then reports the first member of viol alone, with one fix-it on the nominal.
ReportsFirstOf(viol) ==
    /\ lastCall.result = "false" <=> viol # {}
    /\ lastCall.result = "true" => lastCall.diags = <<>>
    /\ lastCall.result = "false" =>
          LET f  == Min(viol)
              ds == lastCall.diags
          IN  /\ DiagsWith(ds, "noncopyable_type_member_in_copyable") = {1}
              /\ ds[1].loc = "Storage"
              /\ ds[1].member = f
              /\ Cardinality({j \in 1..Len(ds) : ds[j].fixit # NoFixIt}) = 1
              /\ \E j \in 1..Len(ds) :
                    /\ ds[j].id = "add_inverse"
                    /\ ds[j].loc = "EnclosingNominal"
                    /\ ds[j].fixit.text \in {": ~Copyable", ", ~Copyable"}
              /\ lastCall.visited[Len(lastCall.visited)] = f
              /\ \A j \in 1..Len(lastCall.visited) : lastCall.visited[j] <= f

\* C6 as stated: the check of a struct or enum returns false iff some storage
\* member's type does not conform to Copyable; it then stops at the first such
\* member, emitting one violation diagnostic for it and one fix-it on the
\* nominal, and checks no later member.
C6_FailsIffSomeMemberNoncopyable ==
    (lastCall.op = "check" /\ nominal.kind \in {"Struct", "Enum"})
        => ReportsFirstOf({i \in StorageIdx : ~nominal.members[i].ty.conforms})

\* C6, amended: the same, counting only the storage members whose type holds
\* no error; a member whose type holds an error is passed over.
C6_FailsIffSomeValidMemberNoncopyable ==
    (lastCall.op = "check" /\ nominal.kind \in {"Struct", "Enum"})
        => ReportsFirstOf({i \in StorageIdx : /\ ~nominal.members[i].ty.hasError
                                              /\ ~nominal.members[i].ty.conforms})

C6_Witness ==
    /\ lastCall.op = "check"
    /\ nominal.kind = "Struct"
    /\ Len(nominal.members) = 2
    /\ nominal.members[1].ty.hasError /\ ~nominal.members[1].ty.conforms
    /\ ~nominal.members[2].ty.hasError /\ ~nominal.members[2].ty.conforms
    /\ lastCall.result = "false"
    /\ lastCall.diags[1].member = 2

\* C7: the check of a class or of a protocol returns true and emits no
\* diagnostic, whatever the members are.
C7_ClassAndProtocolValid ==
    (lastCall.op = "check" /\ nominal.kind \in {"Class", "Protocol"})
        => /\ lastCall.result = "true"
           /\ lastCall.diags = <<>>
           /\ ~aborted

C7_Witness ==
    /\ lastCall.op = "check"
    /\ nominal.kind = "Class"
    /\ \E i \in 1..Len(nominal.members) :
          ~nominal.members[i].ty.hasError /\ ~nominal.members[i].ty.conforms
    /\ lastCall.result = "true"

\* C8: the walk invokes the callback on enum elements with associated values
\* only, in case order, and on no member of a protocol, for which it returns
\* false.
C8_CallbackOnStorageOnly ==
    lastCall.op \in {"visit", "check"} =>
        /\ nominal.kind = "Enum" =>
              /\ \A j \in 1..Len(lastCall.visited) :
                    nominal.members[lastCall.visited[j]].hasAssoc
              /\ \A j, k \in 1..Len(lastCall.visited) :
                    j < k => lastCall.visited[j] < lastCall.visited[k]
        /\ nominal.kind = "Protocol" =>
              /\ lastCall.visited = <<>>
              /\ lastCall.op = "visit" => lastCall.result = "false"

C8_Witness ==
    /\ lastCall.op = "visit"
    /\ nominal.kind = "Enum"
    /\ Len(nominal.members) = 2
    /\ ~nominal.members[1].hasAssoc
    /\ nominal.members[2].hasAssoc
    /\ lastCall.visited = <<2>>
    /\ lastCall.result = "true"

\* C9: neither the walk nor the check of a built-in tuple declaration returns
\* a result; both abort.
C9_BuiltinTupleFatal ==
    (lastCall.op \in {"visit", "check"} /\ nominal.kind = "BuiltinTuple")
        => lastCall.result = "none" /\ aborted

\* C10: a reported violation is followed first by the add-inverse fix-it on
\* the nominal and then by at most one note.  For a member whose type is an
\* archetype that note is the one at the generic parameter's declaration,
\* emitted exactly when the parameter is declared in the nominal's module, and
\* no marking is reported; no note points below the member's own type.
C10_FixItThenAtMostOneNote ==
    (lastCall.op = "check" /\ lastCall.result = "false") =>
        LET ds == lastCall.diags
            ty == nominal.members[ds[1].member].ty
        IN  /\ Len(ds) \in {2, 3}
            /\ ds[2].id = "add_inverse"
            /\ ds[2].loc = "EnclosingNominal"
            /\ ds[2].fixit # NoFixIt
            /\ Len(ds) = 3 => ds[3].id \in NoteIds /\ ds[3].fixit = NoFixIt
            /\ ty.kind = "Archetype" =>
                  /\ Len(ds) = 3 <=> ty.gp = "SameModule"
                  /\ Len(ds) = 3 =>
                        /\ ds[3].id = "note_inverse_preventing_conformance"
                        /\ ds[3].loc = "GenericParamDecl"
            /\ \A j \in 1..Len(ds) : ds[j].depth = 0

C10_Witness ==
    /\ lastCall.op = "check"
    /\ lastCall.result = "false"
    /\ Len(lastCall.diags) = 3
    /\ nominal.members[lastCall.diags[1].member].ty.kind = "Archetype"
    /\ lastCall.diags[3].loc = "GenericParamDecl"

\* C11: for a reported member whose type is a nominal with a source location
\* the note follows that nominal's inverse marking: one implicit note at the
\* marking for Inferred, one explicit note at the marking for Explicit, and
\* for None the tracer aborts, never returning without a note.
C11_CauseNoteFollowsMarking ==
    (lastCall.op = "check" /\ lastCall.diags # <<>>) =>
        LET ds    == lastCall.diags
            ty    == nominal.members[ds[1].member].ty
            notes == {j \in 1..Len(ds) : ds[j].id \in NoteIds}
        IN  (ty.kind = "Nominal" /\ ty.hasLoc) =>
              CASE ty.inverse = "Inferred" ->
                     /\ ~aborted
                     /\ Cardinality(notes) = 1
                     /\ \A j \in notes :
                           /\ ds[j].id = "note_inverse_preventing_conformance_implicit"
                           /\ ds[j].loc = "InverseLoc"
                [] ty.inverse = "Explicit" ->
                     /\ ~aborted
                     /\ Cardinality(notes) = 1
                     /\ \A j \in notes :
                           /\ ds[j].id = "note_inverse_preventing_conformance_explicit"
                           /\ ds[j].loc = "InverseLoc"
                [] ty.inverse = "None" ->
                     /\ aborted
                     /\ lastCall.result = "none"

====
